---- MODULE Spec2Model ----
\* Claim embedding and extraction for WebAssembly modules (src/src/wasm.rs).
\*
\* A module is the sequence of its sections in byte-stream order.  Every
\* payload (function body, data segment, custom-section data, token text,
\* hash string) is a sequence of integers, so concatenation in the hash
\* accumulator is real concatenation.
EXTENDS Integers, Sequences, FiniteSets, TLC

VARIABLES
    module,     \* the module bytes currently held by the caller
    orig,       \* orig_bytecode of the last embed_claims call
    claims,     \* the caller's claim record of the last embed_claims call
    kp,         \* the key pair of the last embed_claims call
    last,       \* the last operation and what it returned
    embeds,     \* number of embed_claims calls so far
    tampered    \* None, or Some(section index) of the byte changed after embedding

vars == <<module, orig, claims, kp, last, embeds, tampered>>

----------------------------------------------------------------------------
\* Bounds of the model.

\* largest number of function bodies / data segments in a section of the input
MaxEntries == 2
\* largest number of embed_claims calls in a run
MaxEmbeds == 2

----------------------------------------------------------------------------
\* Option and Result values.

None == <<>>
Some(x) == <<x>>
IsSome(o) == Len(o) = 1

Ok(v) == [ok |-> TRUE, val |-> v, err |-> ""]
Err(e) == [ok |-> FALSE, val |-> <<>>, err |-> e]

----------------------------------------------------------------------------
\* Constants of the program.

SECTION_JWT == "jwt"
SECTION_WC_JWT == "wasmcloud_jwt"
\* jwt::MIN_WASCAP_INTERNAL_REVISION, the minimum-supported revision threshold
MIN_WASCAP_INTERNAL_REVISION == 3

----------------------------------------------------------------------------
\* Sections, as the parser yields them (wasmparser::Payload).

Section(id, name, entries, data) ==
    [id |-> id, name |-> name, entries |-> entries, data |-> data]

\* a code section: one CodeSectionEntry per function body
CodeSection(bodies) == Section("code", "", bodies, <<>>)
\* a data section: DataSection(reader) over its segments
DataSection(segments) == Section("data", "", segments, <<>>)
\* CustomSection(reader): reader.name(), reader.data()
CustomSection(name, data) == Section("custom", name, <<>>, data)
\* any other payload (type, import, function, ... sections): `_ => {}`
OtherSection == Section("other", "", <<>>, <<>>)
\* bytes the parser rejects: `payload?` returns the parser's error
MalformedSection == Section("malformed", "", <<>>, <<>>)

RECURSIVE Concat(_)
Concat(seqs) ==
    IF seqs = <<>> THEN <<>> ELSE Head(seqs) \o Concat(Tail(seqs))

----------------------------------------------------------------------------
\* The claims codec (crate::jwt) and key pairs (nkeys).  A claim record is
\*   [issuer, subject, wascap_revision : Option<int>,
\*    metadata : Option<[caps, module_hash]>]
\* and a key pair is [pk, seed]; a pair without its seed cannot sign.

EncodeOption(o) == IF IsSome(o) THEN <<1, o[1]>> ELSE <<0>>

EncodeMetadata(o) ==
    IF IsSome(o)
    THEN <<1, Len(o[1].caps)>> \o o[1].caps
            \o <<Len(o[1].module_hash)>> \o o[1].module_hash
    ELSE <<0>>

\* Claims::encode: the token text, or the signing failure
Encode(c, k) ==
    IF ~k.seed THEN Err("SigningError")
    ELSE Ok(<<74, c.issuer, c.subject>> \o EncodeOption(c.wascap_revision)
               \o EncodeMetadata(c.metadata) \o <<k.pk>>)

\* Claims::decode: the claim record a token text carries, or InvalidToken
Decode(t) ==
    IF Len(t) < 5 \/ t[1] # 74 \/ t[4] \notin {0, 1} THEN Err("InvalidToken")
    ELSE
      LET p   == IF t[4] = 1 THEN 6 ELSE 5
          rev == IF t[4] = 1 THEN Some(t[5]) ELSE None
      IN
      IF Len(t) < p + 1 \/ t[p] \notin {0, 1} THEN Err("InvalidToken")
      ELSE IF t[p] = 0
      THEN IF Len(t) = p + 1
           THEN Ok([issuer |-> t[2], subject |-> t[3],
                    wascap_revision |-> rev, metadata |-> None])
           ELSE Err("InvalidToken")
      ELSE
        LET nc == t[p + 1]
            q  == p + 2 + nc
        IN
        IF nc < 0 \/ Len(t) < q + 1 THEN Err("InvalidToken")
        ELSE IF t[q] < 0 \/ Len(t) # q + t[q] + 1 THEN Err("InvalidToken")
        ELSE Ok([issuer |-> t[2], subject |-> t[3],
                 wascap_revision |-> rev,
                 metadata |-> Some([caps |-> SubSeq(t, p + 2, p + 1 + nc),
                                    module_hash |-> SubSeq(t, q + 1, q + t[q])])])

\* String::from_utf8: byte 255 never occurs in UTF-8 text
FromUtf8(bytes) ==
    IF \E i \in 1..Len(bytes) : bytes[i] = 255 THEN Err("Utf8Error")
    ELSE Ok(bytes)

----------------------------------------------------------------------------
\* compute_hash_without_jwt

\* HEXUPPER.encode(sha256_digest(binary)): a collision-free digest, never ""
Sha256Hex(binary) == <<Len(binary)>> \o binary

ExcludedFromHashOnlyLegacy(name) == name = SECTION_JWT

\* the negation of the test of line 161
ExcludedFromHash(name) == name = SECTION_JWT \/ name = SECTION_WC_JWT

\* the loop of lines 146-167 from section i on, `binary` being the accumulator
RECURSIVE HashScan(_, _, _)
HashScan(modbytes, i, binary) ==
    IF i > Len(modbytes) THEN Ok(binary)
    ELSE
      LET s == modbytes[i] IN
      CASE s.id = "malformed" -> Err("BinaryReaderError")
        [] s.id = "code" -> HashScan(modbytes, i + 1, binary \o Concat(s.entries))
        [] s.id = "data" ->
             \* reader.read() reads one segment: the first, if there is one
             IF s.entries = <<>> THEN Err("BinaryReaderError")
             ELSE HashScan(modbytes, i + 1, binary \o s.entries[1])
        [] s.id = "custom" ->
             IF ExcludedFromHash(s.name)
             THEN HashScan(modbytes, i + 1, binary)
             ELSE HashScan(modbytes, i + 1, binary \o s.data)
        [] OTHER -> HashScan(modbytes, i + 1, binary)

compute_hash_without_jwt(modbytes) ==
    LET binary == HashScan(modbytes, 1, <<>>) IN
    IF binary.ok THEN Ok(Sha256Hex(binary.val)) ELSE binary

----------------------------------------------------------------------------
\* extract_claims

IsClaimSectionAnyName(name) == TRUE

IsClaimSectionOnlyPrimary(name) == name = SECTION_WC_JWT

\* the test of line 34
IsClaimSection(name) == name = SECTION_JWT \/ name = SECTION_WC_JWT

\* claims.wascap_revision.unwrap_or_default()
UnwrapOrDefault(o) == IF IsSome(o) THEN o[1] ELSE 0

HashRejectedStrictly(meta, hash, rev) ==
    /\ meta.module_hash # hash
    /\ UnwrapOrDefault(rev) > MIN_WASCAP_INTERNAL_REVISION

\* the condition of lines 39-41
HashRejected(meta, hash, rev) ==
    /\ meta.module_hash # hash
    /\ UnwrapOrDefault(rev) >= MIN_WASCAP_INTERNAL_REVISION

\* A call's outcome: the Result it returns and whether it called
\* compute_hash_without_jwt.
Outcome(res, hashed) == [res |-> res, hashed |-> hashed]

\* lines 35-49: the first claim section has been found
ExtractFromSection(contents, data) ==
    LET jwt == FromUtf8(data) IN
    IF ~jwt.ok THEN Outcome(jwt, FALSE)
    ELSE
      LET decoded == Decode(jwt.val) IN
      IF ~decoded.ok THEN Outcome(decoded, FALSE)
      ELSE
        LET hash == compute_hash_without_jwt(contents) IN
        IF ~hash.ok THEN Outcome(hash, TRUE)
        ELSE IF IsSome(decoded.val.metadata)
        THEN IF HashRejected(decoded.val.metadata[1], hash.val,
                             decoded.val.wascap_revision)
             THEN Outcome(Err("InvalidModuleHash"), TRUE)
             ELSE Outcome(Ok(Some([jwt |-> jwt.val, claims |-> decoded.val])), TRUE)
        ELSE Outcome(Err("InvalidAlgorithm"), TRUE)

\* the loop of lines 31-54 from section i on
RECURSIVE ExtractScan(_, _)
ExtractScan(contents, i) ==
    IF i > Len(contents) THEN Outcome(Ok(None), FALSE)
    ELSE
      LET s == contents[i] IN
      IF s.id = "malformed" THEN Outcome(Err("BinaryReaderError"), FALSE)
      ELSE IF s.id = "custom" /\ IsClaimSection(s.name)
      THEN ExtractFromSection(contents, s.data)
      ELSE ExtractScan(contents, i + 1)

extract_claims(contents) == ExtractScan(contents, 1)

----------------------------------------------------------------------------
\* embed_claims

\* wasm_gen::write_custom_section(&mut bytes, name, data): appends the section
write_custom_section(bytes, name, data) ==
    Append(bytes, CustomSection(name, data))

KeepModuleHash(md, hash) == md

\* Actor { module_hash: hash, ..md }
WithModuleHash(md, hash) == [md EXCEPT !.module_hash = hash]

\* lines 68-73: the clone of the caller's record that is encoded
ClaimsToEncode(c, hash) ==
    [c EXCEPT !.metadata =
        IF IsSome(c.metadata) THEN Some(WithModuleHash(c.metadata[1], hash))
        ELSE None]

embed_claims(orig_bytecode, c, k) ==
    LET hash == compute_hash_without_jwt(orig_bytecode) IN
    IF ~hash.ok THEN hash
    ELSE
      LET encoded == Encode(ClaimsToEncode(c, hash.val), k) IN
      IF ~encoded.ok THEN encoded
      ELSE Ok(write_custom_section(orig_bytecode, SECTION_WC_JWT, encoded.val))

----------------------------------------------------------------------------
\* The inputs: modules, claim records and key pairs.

Names == {SECTION_JWT, SECTION_WC_JWT}

\* function body j of a code section, data segment j of a data section
Body(j) == <<16 + j>>
Segment(j) == <<32 + j>>

CodeChoices ==
    {<<>>} \cup {<<CodeSection([j \in 1..n |-> Body(j)])>> : n \in 1..MaxEntries}
DataChoices ==
    {<<>>} \cup {<<DataSection([j \in 1..n |-> Segment(j)])>> : n \in 0..MaxEntries}

\* a custom section that is no claim section, before or after code and data
NameSection == CustomSection("name", <<7>>)

\* the module without claim sections
Bodies ==
    { <<OtherSection>> \o name[1] \o code \o data \o name[2] \o tail :
        name \in {<<<<>>, <<>>>>, <<<<NameSection>>, <<>>>>, <<<<>>, <<NameSection>>>>},
        code \in CodeChoices,
        data \in DataChoices,
        tail \in {<<>>, <<MalformedSection>>} }

\* an account key pair, and one holding only the public key
KeyPairs == {[pk |-> 1, seed |-> TRUE], [pk |-> 2, seed |-> FALSE]}

\* the records a caller passes to embed_claims; Actor::new leaves module_hash ""
ClaimArgs ==
    { [issuer |-> 1, subject |-> 1,
       wascap_revision |-> Some(MIN_WASCAP_INTERNAL_REVISION),
       metadata |-> Some([caps |-> <<1, 2>>, module_hash |-> <<>>])],
      [issuer |-> 2, subject |-> 2,
       wascap_revision |-> Some(MIN_WASCAP_INTERNAL_REVISION - 1),
       metadata |-> Some([caps |-> <<3>>, module_hash |-> <<>>])],
      [issuer |-> 2, subject |-> 1,
       wascap_revision |-> None,
       metadata |-> None] }

\* the calls of embed_claims: every record with the key pair that signs, and
\* the records it issued with the key pair that cannot sign
EmbedArgs ==
    { <<c, k>> \in ClaimArgs \X KeyPairs : k.seed \/ c.issuer = k.pk }

\* the record of a claim section the input already carries
OldClaims(meta, rev) ==
    [issuer |-> 9, subject |-> 9, wascap_revision |-> rev, metadata |-> meta]

OldToken(meta, rev) == Encode(OldClaims(meta, rev), [pk |-> 9, seed |-> TRUE]).val

OldMeta(hash) == Some([caps |-> <<9>>, module_hash |-> hash])

\* the hash an earlier embed_claims recorded for this body ("" if it could not)
RecordedHash(body) ==
    LET h == compute_hash_without_jwt(body) IN IF h.ok THEN h.val ELSE <<>>

\* payloads of a claim section of the input: a token with the right hash, with
\* a stale hash at and below the revision threshold, without metadata, bytes
\* that are no text, text that is no token
OldPayloads(body) ==
    { OldToken(OldMeta(RecordedHash(body)), Some(MIN_WASCAP_INTERNAL_REVISION)),
      OldToken(OldMeta(<<>>), Some(MIN_WASCAP_INTERNAL_REVISION)),
      OldToken(OldMeta(<<>>), Some(MIN_WASCAP_INTERNAL_REVISION - 1)),
      OldToken(None, Some(MIN_WASCAP_INTERNAL_REVISION)),
      <<255>>,
      <<0>> }

\* payloads of a claim section of the input under the legacy name: a token
\* with the right hash, one with a stale hash and no revision
LegacyPayloads(body) ==
    { OldToken(OldMeta(RecordedHash(body)), Some(MIN_WASCAP_INTERNAL_REVISION)),
      OldToken(OldMeta(<<>>), None) }

\* the payload of a second claim section of the input
LaterPayload == OldToken(OldMeta(<<>>), None)

\* an input carries no claim section, or one before its other sections (under
\* the primary name, or a token under the legacy name), and possibly a later one
InputModules ==
    UNION { { pre \o body \o post :
                pre \in {<<>>}
                    \cup {<<CustomSection(SECTION_WC_JWT, d)>> : d \in OldPayloads(body)}
                    \cup {<<CustomSection(SECTION_JWT, d)>> : d \in LegacyPayloads(body)},
                post \in {<<>>, <<CustomSection(SECTION_JWT, LaterPayload)>>} }
            : body \in Bodies }

----------------------------------------------------------------------------
\* The state machine: a caller holding a module embeds claims into it, extracts
\* them, and a third party may change a byte of a signed module.

Init ==
    /\ module \in InputModules
    /\ orig = module
    /\ claims = None
    /\ kp = None
    /\ last = [op |-> "init", res |-> Ok(None), hashed |-> FALSE]
    /\ embeds = 0
    /\ tampered = None

\* module = embed_claims(module, c, k)?: the caller keeps its module on an
\* error; the bytes returned on success are recorded in `module` only
Embed(c, k) ==
    /\ embeds < MaxEmbeds
    /\ tampered = None
    /\ LET res == embed_claims(module, c, k) IN
       /\ module' = IF res.ok THEN res.val ELSE module
       /\ last' = [op |-> "embed", res |-> IF res.ok THEN Ok(None) ELSE res,
                   hashed |-> TRUE]
    /\ orig' = module
    /\ claims' = Some(c)
    /\ kp' = Some(k)
    /\ embeds' = embeds + 1
    /\ tampered' = None

\* extract_claims(module)
Extract ==
    /\ last.op # "extract"
    /\ LET out == extract_claims(module) IN
       last' = [op |-> "extract", res |-> out.res, hashed |-> out.hashed]
    /\ UNCHANGED <<module, orig, claims, kp, embeds, tampered>>

\* compute_hash_without_jwt(module)
Hash ==
    /\ last.op # "hash"
    /\ last' = [op |-> "hash", res |-> compute_hash_without_jwt(module),
                hashed |-> TRUE]
    /\ UNCHANGED <<module, orig, claims, kp, embeds, tampered>>

FlipByte(b) == (b + 128) % 256

\* byte n of entry e (a function body or a data segment) of section i changes
Tamper(i, e, n) ==
    /\ last.op = "embed" /\ last.res.ok
    /\ module[i].id \in {"code", "data"}
    /\ module' = [module EXCEPT ![i].entries[e][n] = FlipByte(@)]
    /\ tampered' = Some([section |-> i, entry |-> e])
    /\ last' = [op |-> "tamper", res |-> Ok(None), hashed |-> FALSE]
    /\ UNCHANGED <<orig, claims, kp, embeds>>

Next ==
    \/ \E a \in EmbedArgs : Embed(a[1], a[2])
    \/ Extract
    \/ Hash
    \/ \E i \in 1..Len(module) :
         \E e \in 1..Len(module[i].entries) :
           \E n \in 1..Len(module[i].entries[e]) : Tamper(i, e, n)

Spec == Init /\ [][Next]_vars

----------------------------------------------------------------------------
\* Vocabulary of the properties.

\* the places of the custom sections with a reserved name
ClaimSections(m) ==
    {i \in 1..Len(m) : m[i].id = "custom" /\ m[i].name \in Names}

FirstClaimSection(m) ==
    CHOOSE i \in ClaimSections(m) : \A j \in ClaimSections(m) : i <= j

\* the parser reads the module to its end
WellFormed(m) == \A i \in 1..Len(m) : m[i].id # "malformed"

\* the parser reaches the first claim section
ReachesFirstClaim(m) ==
    /\ ClaimSections(m) # {}
    /\ \A i \in 1..FirstClaimSection(m) : m[i].id # "malformed"

RECURSIVE SelectSections(_, _)
SelectSections(m, keep) ==
    IF m = <<>> THEN <<>>
    ELSE LET rest == SelectSections(Tail(m), {i - 1 : i \in keep \ {1}}) IN
         IF 1 \in keep THEN <<Head(m)>> \o rest ELSE rest

\* the module without the claim sections that follow its first one
WithoutLaterClaims(m) ==
    SelectSections(m, (1..Len(m)) \ (ClaimSections(m) \ {FirstClaimSection(m)}))

\* the last embed_claims call succeeded and `module` is what it returned,
\* possibly with a byte changed since
Embedded == embeds > 0 /\ Len(module) = Len(orig) + 1

\* the token text that the last successful embed_claims appended
EmbeddedToken == module[Len(module)].data

\* the hash accumulator as the specification defines it: every function body,
\* every data segment, every custom section without a reserved name
RECURSIVE SpecAccumulator(_)
SpecAccumulator(m) ==
    IF m = <<>> THEN <<>>
    ELSE LET s == Head(m) IN
         (CASE s.id \in {"code", "data"} -> Concat(s.entries)
            [] s.id = "custom" /\ s.name \notin Names -> s.data
            [] OTHER -> <<>>)
         \o SpecAccumulator(Tail(m))

----------------------------------------------------------------------------
\* C1: round trip.  After a successful embed_claims(M, C, K) with a record C
\* that has metadata, extract_claims of the result returns a present token
\* whose issuer, subject and capability list are those of C, also when M
\* already carried a claim section.
C1_RoundTrip ==
    (last.op = "extract" /\ Embedded /\ tampered = None
        /\ IsSome(claims[1].metadata))
    => /\ last.res.ok
       /\ IsSome(last.res.val)
       /\ last.res.val[1].claims.issuer = claims[1].issuer
       /\ last.res.val[1].claims.subject = claims[1].subject
       /\ IsSome(last.res.val[1].claims.metadata)
       /\ last.res.val[1].claims.metadata[1].caps = claims[1].metadata[1].caps

\* C2: hash stability.  Whenever embed_claims succeeds, the canonical hash of
\* its output equals the canonical hash of its input, whether or not the
\* input was signed before; so no sequence of embed_claims calls changes it.
C2_HashStable ==
    (last.op = "embed" /\ last.res.ok)
    => /\ compute_hash_without_jwt(orig).ok
       /\ compute_hash_without_jwt(module) = compute_hash_without_jwt(orig)

C2_Witness ==
    /\ last.op = "embed" /\ last.res.ok
    /\ embeds = MaxEmbeds
    /\ Cardinality(ClaimSections(module)) > 1

\* C3: tamper detection.  After a successful embed_claims of a record with
\* metadata and a revision at or above the threshold into an unsigned module,
\* changing any byte of a function body or of a data segment makes
\* extract_claims fail with InvalidModuleHash.
C3_TamperDetected ==
    (last.op = "extract" /\ IsSome(tampered)
        /\ ClaimSections(orig) = {}
        /\ IsSome(claims[1].metadata)
        /\ UnwrapOrDefault(claims[1].wascap_revision) >= MIN_WASCAP_INTERNAL_REVISION)
    => last.res = Err("InvalidModuleHash")

\* C4: the first claim section decides.  When a module holds more than one
\* custom section with a reserved name, extract_claims returns what it returns
\* for the module without the later ones, and a token it returns carries the
\* text of the first.
C4_FirstClaimSectionDecides ==
    (last.op = "extract" /\ Cardinality(ClaimSections(module)) > 1)
    => /\ last.res = extract_claims(WithoutLaterClaims(module)).res
       /\ (last.res.ok /\ IsSome(last.res.val))
            => last.res.val[1].jwt = module[FirstClaimSection(module)].data

C4_Witness ==
    /\ last.op = "extract" /\ last.res.ok /\ IsSome(last.res.val)
    /\ \E i \in ClaimSections(module) :
         /\ i > FirstClaimSection(module)
         /\ module[i].data # module[FirstClaimSection(module)].data

\* C5: a single claim section.  After a successful embed_claims the module
\* holds exactly one custom section named "wasmcloud_jwt", and its payload is
\* the newly encoded token.
C5_SingleClaimSection ==
    (last.op = "embed" /\ last.res.ok)
    => /\ Cardinality({i \in ClaimSections(module) :
                          module[i].name = SECTION_WC_JWT}) = 1
       /\ Decode(EmbeddedToken).ok

\* C6: the hash-mismatch rule.  When the first claim section decodes to a
\* record with metadata and the canonical hash is computed, extract_claims
\* fails with InvalidModuleHash exactly when the recorded hash differs from the
\* computed one and the revision (absent counting as 0) is at or above the
\* threshold; otherwise it returns the token text with the decoded record.
C6_HashMismatchRule ==
    (last.op = "extract" /\ ReachesFirstClaim(module))
    => LET data == module[FirstClaimSection(module)].data
           text == FromUtf8(data)
           hash == compute_hash_without_jwt(module)
       IN (text.ok /\ Decode(data).ok /\ IsSome(Decode(data).val.metadata) /\ hash.ok)
          => LET c == Decode(data).val
                 revision == IF IsSome(c.wascap_revision)
                             THEN c.wascap_revision[1] ELSE 0
                 mismatch == c.metadata[1].module_hash # hash.val
             IN /\ (last.res = Err("InvalidModuleHash"))
                      <=> (mismatch /\ revision >= MIN_WASCAP_INTERNAL_REVISION)
                /\ ~(mismatch /\ revision >= MIN_WASCAP_INTERNAL_REVISION)
                      => last.res = Ok(Some([jwt |-> data, claims |-> c]))

C6_Witness ==
    /\ last.op = "extract" /\ last.res.ok /\ IsSome(last.res.val)
    /\ compute_hash_without_jwt(module).ok
    /\ last.res.val[1].claims.metadata[1].module_hash
          # compute_hash_without_jwt(module).val
    /\ last.res.val[1].claims.wascap_revision
          = Some(MIN_WASCAP_INTERNAL_REVISION - 1)

\* C7: the no-claim case.  For a module that the parser reads to its end and
\* that has no custom section named "jwt" or "wasmcloud_jwt", extract_claims
\* returns Ok(None) without computing the canonical hash.
C7_NoClaim ==
    (last.op = "extract" /\ WellFormed(module) /\ ClaimSections(module) = {})
    => /\ last.res = Ok(None)
       /\ ~last.hashed

C7_Witness ==
    /\ last.op = "extract" /\ last.res = Ok(None)
    /\ ClaimSections(module) = {}
    /\ \E i \in 1..Len(module) : module[i].id = "custom"
    /\ ~compute_hash_without_jwt(module).ok

\* C8: missing metadata.  When the first claim section decodes to a record
\* without metadata, extract_claims fails with InvalidAlgorithm, whatever the
\* hash computation yields.
C8_MissingMetadataRejected ==
    (last.op = "extract" /\ ReachesFirstClaim(module))
    => LET data == module[FirstClaimSection(module)].data IN
       (FromUtf8(data).ok /\ Decode(data).ok /\ ~IsSome(Decode(data).val.metadata))
       => last.res = Err("InvalidAlgorithm")

\* C9: the canonical hash.  For a module that the parser reads to its end,
\* compute_hash_without_jwt succeeds and returns the digest of the
\* concatenation, in section order, of every function body, every data
\* segment and every custom section without a reserved name.
C9_CanonicalHash ==
    (last.op = "hash" /\ WellFormed(module))
    => last.res = Ok(Sha256Hex(SpecAccumulator(module)))

\* C10 as stated: the token that a successful embed_claims embeds carries the
\* canonical hash of the input, for a record with or without metadata, and its
\* other fields are those of the caller's record.
C10_EmbedRecordsHash ==
    (last.op = "embed" /\ last.res.ok)
    => LET c == Decode(EmbeddedToken).val IN
       /\ IsSome(c.metadata)
       /\ Ok(c.metadata[1].module_hash) = compute_hash_without_jwt(orig)
       /\ c.issuer = claims[1].issuer
       /\ c.subject = claims[1].subject
       /\ c.wascap_revision = claims[1].wascap_revision

\* C10 as amended: the token that a successful embed_claims embeds decodes to
\* the caller's record with, if the record has metadata, its module_hash set to
\* the canonical hash of the input; a record without metadata is encoded as it
\* is and carries no hash.  The input's sections precede the new one unchanged.
C10_EmbedRecordsHashIfMetadata ==
    (last.op = "embed" /\ last.res.ok)
    => LET c == Decode(EmbeddedToken).val
           given == claims[1]
       IN
       /\ Decode(EmbeddedToken).ok
       /\ c.issuer = given.issuer
       /\ c.subject = given.subject
       /\ c.wascap_revision = given.wascap_revision
       /\ IsSome(c.metadata) = IsSome(given.metadata)
       /\ IsSome(given.metadata)
            => /\ Ok(c.metadata[1].module_hash) = compute_hash_without_jwt(orig)
               /\ c.metadata[1].caps = given.metadata[1].caps
       /\ SubSeq(module, 1, Len(orig)) = orig
       /\ Len(module) = Len(orig) + 1

C10_Witness ==
    /\ last.op = "embed" /\ last.res.ok
    /\ IsSome(claims[1].metadata)
    /\ claims[1].metadata[1].module_hash
          # Decode(EmbeddedToken).val.metadata[1].module_hash
    /\ ClaimSections(orig) # {}

====
